---- MODULE Spec2Model ----
(***************************************************************************)
(* A model of the image-finding utilities of KerrP2P (src/src/Utils.h):    *)
(* wrap_phi, sgn, RootFunctor, calc_ray_batch, find_root, find_root_period *)
(* and the phases of sweep_rc_d (sampling, root isolation, pairing,        *)
(* ranking, parallel refinement, deduplication).                           *)
(*                                                                         *)
(* Numbers of type Real are floating-point numbers.  They are modelled as  *)
(* integers counted in a fixed small unit, rounded after every arithmetic  *)
(* operation to MantBits significant bits (round to nearest, ties to       *)
(* even), with one extra value NaN that every operation propagates and     *)
(* every comparison answers FALSE on.                                      *)
(***************************************************************************)
EXTENDS Integers, Sequences, FiniteSets, TLC

(***************************************************************************)
(* Real arithmetic                                                         *)
(***************************************************************************)

\* Significant bits of the model's floating-point format.
MantBits == 4

\* two_pi, in units: the unit of angle is 1/96 of a turn.
TwoPi == 96

\* std::numeric_limits<Real>::quiet_NaN(); lies outside every value used.
NaN == 1000000

\* std::numeric_limits<int>::max(), the period RootFunctor stores when no
\* period is fixed and the value find_root_period tests for.
IntMax == 2147483647

isnan(x) == x = NaN

Abs(x) == IF x < 0 THEN -x ELSE x

RECURSIVE Pow2(_)
Pow2(n) == IF n = 0 THEN 1 ELSE 2 * Pow2(n - 1)

\* The distance between neighbouring representable numbers at magnitude
\* a / d (a >= 0, d > 0), starting the search at spacing s.
RECURSIVE Spacing(_, _, _)
Spacing(a, d, s) == IF a < Pow2(MantBits) * s * d THEN s ELSE Spacing(a, d, 2 * s)

\* The representable number nearest to the rational n / d (d > 0), in units
\* of 1: round to nearest, ties to the even mantissa.
RoundRat(n, d) ==
    LET a  == Abs(n)
        s  == Spacing(a, d, 1)
        lo == (a \div (d * s)) * s
        r2 == 2 * (a - lo * d)
        m  == IF r2 < s * d THEN lo
              ELSE IF r2 > s * d THEN lo + s
              ELSE IF (lo \div s) % 2 = 0 THEN lo ELSE lo + s
    IN  IF n < 0 THEN -m ELSE m

Round(x) == RoundRat(x, 1)

\* The numbers of the format between -r and r.
Representable(r) == {x \in -r..r : Round(x) = x}

\* a - b, a * b in type Real.
FSub(a, b) == IF isnan(a) \/ isnan(b) THEN NaN ELSE Round(a - b)

FMul(a, b) == IF isnan(a) \/ isnan(b) THEN NaN ELSE Round(a * b)

\* MY_FLOOR<T>::convert(a / b) for b > 0: the quotient is rounded to the
\* format first (it is kept with MantBits fraction bits), then floored.
FloorDiv(a, b) == RoundRat(a * Pow2(MantBits), b) \div Pow2(MantBits)

\* a < b, a >= b on type Real: FALSE when either side is NaN.
FLt(a, b) == ~isnan(a) /\ ~isnan(b) /\ a < b

FGe(a, b) == ~isnan(a) /\ ~isnan(b) /\ a >= b

FGt(a, b) == ~isnan(a) /\ ~isnan(b) /\ a > b

(***************************************************************************)
(* sgn and wrap_phi                                                        *)
(***************************************************************************)

\* sgn(val) = (T(0) < val) - (val < T(0)); 0 for NaN.
sgn(val) == (IF FLt(0, val) THEN 1 ELSE 0) - (IF FLt(val, 0) THEN 1 ELSE 0)

\* wrap_phi: if (phi < 0 || phi >= two_pi) phi -= two_pi * floor(phi / two_pi).
wrap_phi(phi) ==
    IF FLt(phi, 0) \/ FGe(phi, TwoPi)
    THEN FSub(phi, FMul(TwoPi, FloorDiv(phi, TwoPi)))
    ELSE phi

(***************************************************************************)
(* State                                                                   *)
(***************************************************************************)

VARIABLES
    \* wrap_phi through find_root and find_root_period
    w_pc,       \* "idle", "start", "once", "twice"
    w_in,       \* the caller's phi_o
    w_once,     \* phi_o after sweep_rc_d's / find_root's wrap_phi
    w_twice,    \* phi_o after find_root_period's wrap_phi on top of it
    \* sweep_rc_d up to the refinement
    s_pc,           \* "idle", "sample", "isolate", "branch", "refine", "returned"
    rc_list,        \* rc_list
    lgd_list,       \* lgd_list
    s_theta_o,      \* theta_o
    s_phi_o,        \* phi_o, a by-value parameter that wrap_phi rewrites
    oracle_grid,    \* what calc_ray leaves at each grid point (row, col)
    sweep_result,   \* the SweepResult being filled, but for results
    theta_roots_index,          \* the concurrent vector of theta-candidates
    phi_roots_index,            \* the concurrent vector of phi-candidates
    theta_roots_closest_index,  \* the phi-candidate found for each theta-candidate
    distances,      \* distances, squared
    indices,        \* indices after the sort
    s_cutoff,       \* cutoff, as passed and then after std::min
    calls,          \* the find_root_period calls of the refinement
    \* the pooled Oracle contexts and the workers that use them
    ctx_fields, \* per context: the ray its last calc_ray left in it
    u_state,    \* per worker: "free", "acquired", "computed"
    u_ctx,      \* per worker: the context its ray_tracing points to
    u_param,    \* per worker: the params of its last calc_ray
    u_left,     \* per worker: the calc_ray calls left before it lets go
    u_index,    \* per worker: calc_ray_batch's i
    tasks_left, \* acquisitions still to come
    \* calc_ray_batch
    b_pc,           \* "idle", "run", "returned"
    params_list,    \* the input
    batch_results,  \* results
    b_todo,         \* indices of the range no worker has taken yet
    \* one call of find_root or find_root_period
    f_pc,       \* "idle", "find_root", "find_root_period", "solve", "done"
    f_entry,    \* the function the caller called
    f_period,   \* find_root_period's period
    f_theta_o,  \* theta_o
    f_phi_o,    \* phi_o, a by-value parameter that wrap_phi rewrites
    f_tol,      \* tol
    f_fixed,    \* root_functor.fixed_period
    f_x,        \* the solver's x
    f_ray,      \* *root_functor.ray_tracing, the pooled context
    f_residual, \* residual = root_functor(x)
    f_result,   \* the FindRootResult returned
    \* the tail of sweep_rc_d: parallel refinement, then deduplication
    pc,                 \* "idle", "refine", "dedup_scan", "dedup_erase", "done", "crashed"
    tol,                \* sweep_rc_d's tol
    cutoff,             \* sweep_rc_d's cutoff, as passed in
    n_indices,          \* indices.size(): the number of theta-candidates
    todo,               \* indices of the refinement range no worker has taken yet
    tried,              \* how often find_root_period ran for each index
    root_res,           \* the outcome of each attempt made so far
    wstate,             \* per worker: "free", "has_root", "pushing"
    windex,             \* per worker: the index i it is on
    wend,               \* per worker: the end position push_back read
    results_mutex,      \* 0, or the worker that holds the lock
    results,            \* sweep_result.results
    refined,            \* results as it was when deduplication began
    duplicated_index,   \* the sorted positions deduplication removes
    erase_i             \* the removal loop's counter i

wrapVars == <<w_pc, w_in, w_once, w_twice>>

refineVars == <<cutoff, n_indices, todo, tried, root_res, wstate, windex, wend, results_mutex>>

dedupVars == <<refined, duplicated_index, erase_i>>

tailVars == <<pc, tol, results, refineVars, dedupVars>>

rootVars == <<f_pc, f_entry, f_period, f_theta_o, f_phi_o, f_tol, f_fixed, f_x, f_ray,
              f_residual, f_result>>

poolVars == <<ctx_fields, u_state, u_ctx, u_param, u_left, u_index, tasks_left>>

batchVars == <<b_pc, params_list, batch_results, b_todo>>

sweepVars == <<s_pc, rc_list, lgd_list, s_theta_o, s_phi_o, oracle_grid, sweep_result,
               theta_roots_index, phi_roots_index, theta_roots_closest_index, distances,
               indices, s_cutoff, calls>>

vars == <<wrapVars, rootVars, tailVars, poolVars, batchVars, sweepVars>>

\* What a part of the program leaves alone: the variables of the others.
othersOfWrap == <<rootVars, tailVars, poolVars, batchVars, sweepVars>>

othersOfTail == <<wrapVars, rootVars, poolVars, batchVars, sweepVars>>

othersOfRoot == <<wrapVars, tailVars, poolVars, batchVars, sweepVars>>

othersOfBatch == <<wrapVars, rootVars, tailVars, sweepVars>>

othersOfSweep == <<wrapVars, rootVars, tailVars, poolVars, batchVars>>

\* The values of a group of variables while another part of the program runs.
WrapIdle == w_pc = "idle" /\ w_in = 0 /\ w_once = 0 /\ w_twice = 0

SweepIdle ==
    /\ s_pc = "idle" /\ rc_list = <<>> /\ lgd_list = <<>> /\ s_theta_o = 0 /\ s_phi_o = 0
    /\ oracle_grid = <<>> /\ sweep_result = <<>> /\ theta_roots_index = <<>>
    /\ phi_roots_index = <<>> /\ theta_roots_closest_index = <<>> /\ distances = <<>>
    /\ indices = <<>> /\ s_cutoff = 0 /\ calls = <<>>

PoolIdle ==
    /\ ctx_fields = <<>> /\ u_state = <<>> /\ u_ctx = <<>> /\ u_param = <<>>
    /\ u_left = <<>> /\ u_index = <<>> /\ tasks_left = 0

BatchIdle == b_pc = "idle" /\ params_list = <<>> /\ batch_results = <<>> /\ b_todo = {}

RootIdle ==
    /\ f_pc = "idle" /\ f_entry = "" /\ f_period = 0 /\ f_theta_o = 0 /\ f_phi_o = 0
    /\ f_tol = 0 /\ f_fixed = FALSE /\ f_x = <<>> /\ f_ray = <<>> /\ f_residual = <<>>
    /\ f_result = <<>>

RefineIdle ==
    /\ cutoff = 0 /\ n_indices = 0 /\ todo = {} /\ tried = <<>> /\ root_res = <<>>
    /\ wstate = <<>> /\ windex = <<>> /\ wend = <<>> /\ results_mutex = 0

DedupIdle == refined = <<>> /\ duplicated_index = <<>> /\ erase_i = 0

TailIdle == pc = "idle" /\ tol = 0 /\ results = <<>> /\ RefineIdle /\ DedupIdle

(***************************************************************************)
(* The target azimuth through find_root and find_root_period               *)
(***************************************************************************)

\* The largest |phi_o| handed to wrap_phi, in turns.
MaxTurns == 3

WrapInit ==
    /\ SweepIdle
    /\ PoolIdle
    /\ BatchIdle
    /\ TailIdle
    /\ RootIdle
    /\ w_pc = "start"
    /\ w_in \in Representable(MaxTurns * TwoPi)
    /\ w_once = NaN
    /\ w_twice = NaN

\* find_root / sweep_rc_d: wrap_phi(phi_o) on entry.
WrapOnce ==
    /\ w_pc = "start"
    /\ w_once' = wrap_phi(w_in)
    /\ w_pc' = "once"
    /\ UNCHANGED <<w_in, w_twice, othersOfWrap>>

\* find_root_period, called with the wrapped phi_o: wrap_phi(phi_o) again.
WrapTwice ==
    /\ w_pc = "once"
    /\ w_twice' = wrap_phi(w_once)
    /\ w_pc' = "twice"
    /\ UNCHANGED <<w_in, w_once, othersOfWrap>>

WrapNext == WrapOnce \/ WrapTwice

SpecWrap == WrapInit /\ [][WrapNext]_vars

\* The largest number of turns wrap_phi removes or adds here.
WrapTurns == -(MaxTurns + 1)..(MaxTurns + 1)

\* C9: wrap_phi maps every finite angle into [0, 2pi), changes it by a
\* whole number of turns (to the rounding of the subtraction), and wrapping
\* twice gives what wrapping once gives, so that the target azimuth is the
\* same wrapped once or twice.
C9_WrapRangeIdempotent ==
    /\ w_pc \in {"once", "twice"} =>
          /\ 0 <= w_once /\ w_once < TwoPi
          /\ \E k \in WrapTurns : w_once = FSub(w_in, FMul(TwoPi, k))
    /\ w_pc = "twice" => w_twice = w_once

(***************************************************************************)
(* sweep_rc_d: deduplication of the refined roots                          *)
(***************************************************************************)

\* A refined root, as far as deduplication reads it.
Root(rc, log_abs_d) == [rc |-> rc, log_abs_d |-> log_abs_d]

FAbs(x) == IF isnan(x) THEN NaN ELSE Abs(x)

\* abs(a.rc - b.rc) < tol && abs(a.log_abs_d - b.log_abs_d) < tol
IsDuplicate(a, b, t) ==
    /\ FLt(FAbs(FSub(a.rc, b.rc)), t)
    /\ FLt(FAbs(FSub(a.log_abs_d, b.log_abs_d)), t)

\* The inner loop for one i: the first j > i that duplicates i, or 0.
FirstDuplicateOf(res, i, t) ==
    LET hits == {j \in (i + 1)..Len(res) : IsDuplicate(res[i], res[j], t)}
    IN  IF hits = {} THEN 0 ELSE CHOOSE j \in hits : \A k \in hits : j <= k

\* duplicated_index after the two loops: for i = 1, 2, ... the first
\* duplicate of i when there is one.
RECURSIVE ScanFrom(_, _, _)
ScanFrom(res, i, t) ==
    IF i > Len(res) THEN <<>>
    ELSE LET j == FirstDuplicateOf(res, i, t)
         IN  (IF j = 0 THEN <<>> ELSE <<j>>) \o ScanFrom(res, i + 1, t)

\* std::sort(duplicated_index.begin(), duplicated_index.end())
SortedIndex(dup) == SortSeq(dup, LAMBDA a, b : a < b)

\* results.erase(results.begin() + k), positions counted from 1.
EraseAt(res, k) == SubSeq(res, 1, k - 1) \o SubSeq(res, k + 1, Len(res))

\* The two scanning loops and the sort.
DedupScan ==
    /\ pc = "dedup_scan"
    /\ refined' = results
    /\ duplicated_index' = SortedIndex(ScanFrom(results, 1, tol))
    /\ erase_i' = Len(duplicated_index')
    /\ pc' = "dedup_erase"
    /\ UNCHANGED <<tol, results, refineVars, othersOfTail>>

\* One turn of the removal loop on a position inside the list.
DedupErase ==
    /\ pc = "dedup_erase"
    /\ erase_i > 0
    /\ duplicated_index[erase_i] <= Len(results)
    /\ results' = EraseAt(results, duplicated_index[erase_i])
    /\ erase_i' = erase_i - 1
    /\ UNCHANGED <<pc, tol, refined, duplicated_index, refineVars, othersOfTail>>

\* One turn of the removal loop on a position at or past the end of the
\* list: erase of an iterator that is not dereferenceable is undefined.  The
\* build may stop the program, leave the list as it is, or drop its last
\* element (the shift of the tail moves nothing, then the size goes down).
DedupEraseOutOfRange ==
    /\ pc = "dedup_erase"
    /\ erase_i > 0
    /\ duplicated_index[erase_i] > Len(results)
    /\ \/ pc' = "crashed" /\ UNCHANGED <<results, erase_i>>
       \/ pc' = pc /\ results' = results /\ erase_i' = erase_i - 1
       \/ /\ pc' = pc
          /\ results' = SubSeq(results, 1, Len(results) - 1)
          /\ erase_i' = erase_i - 1
    /\ UNCHANGED <<tol, refined, duplicated_index, refineVars, othersOfTail>>

\* return sweep_result
DedupReturn ==
    /\ pc = "dedup_erase"
    /\ erase_i = 0
    /\ pc' = "done"
    /\ UNCHANGED <<tol, results, dedupVars, refineVars, othersOfTail>>

\* The largest rc of a refined root, the largest tol and the longest list
\* of refined roots handed to deduplication.
MaxCoord == 2

MaxTol == 2

MaxRoots == 4

RootPoints == {Root(x, y) : x \in 0..MaxCoord, y \in {0, MaxTol}}

RECURSIVE ListsUpTo(_, _)
ListsUpTo(S, n) ==
    IF n = 0 THEN {<<>>}
    ELSE LET shorter == ListsUpTo(S, n - 1)
         IN  shorter \cup {Append(l, x) : l \in {m \in shorter : Len(m) = n - 1}, x \in S}

\* Deduplication starts from any list the refinement can leave.
DedupInit ==
    /\ SweepIdle
    /\ PoolIdle
    /\ BatchIdle
    /\ WrapIdle
    /\ RootIdle
    /\ RefineIdle
    /\ DedupIdle
    /\ pc = "dedup_scan"
    /\ tol \in 1..MaxTol
    /\ results \in ListsUpTo(RootPoints, MaxRoots)

DedupNext == DedupScan \/ DedupErase \/ DedupEraseOutOfRange \/ DedupReturn

SpecDedup == DedupInit /\ [][DedupNext]_vars

\* C1: after the sweep returns, no two entries of the result list are
\* within tol of each other in both coordinates.
C1_NoDuplicatePairLeft ==
    pc = "done" =>
        \A i, j \in 1..Len(results) :
            i # j => ~IsDuplicate(results[i], results[j], tol)

\* The entries of the list that are not within tol of an earlier entry.
RECURSIVE KeepFirsts(_, _, _)
KeepFirsts(res, i, t) ==
    IF i > Len(res) THEN <<>>
    ELSE (IF \E k \in 1..(i - 1) : IsDuplicate(res[k], res[i], t)
          THEN <<>> ELSE <<res[i]>>) \o KeepFirsts(res, i + 1, t)

InList(x, res) == \E i \in 1..Len(res) : res[i] = x

\* C2: deduplication removes exactly the entries within tol of an earlier
\* entry: a root farther than tol from every other root stays, and so does
\* the first entry.
C2_RemovesExactlyLaterDuplicates ==
    pc = "done" =>
        /\ results = KeepFirsts(refined, 1, tol)
        /\ \A i \in 1..Len(refined) :
              (\A k \in 1..Len(refined) :
                   k # i => ~IsDuplicate(refined[k], refined[i], tol))
              => InList(refined[i], results)
        /\ Len(refined) > 0 => (Len(results) > 0 /\ results[1] = refined[1])

(***************************************************************************)
(* sweep_rc_d: parallel refinement of the ranked candidates                *)
(***************************************************************************)

\* The threads of the parallel_for, the largest cutoff and the largest
\* number of theta-candidates.
NumWorkers == 2

MaxCutoff == 3

MaxCands == 3

Workers == 1..NumWorkers

Min(a, b) == IF a < b THEN a ELSE b

Max(a, b) == IF a < b THEN b ELSE a

\* cutoff = std::min(cutoff, indices.size()); blocked_range(0u, cutoff):
\* the positions of the ranking that are refined, counted from 1.
RefineRange(c, n) == 1..Min(c, n)

\* What find_root_period hands back: no success, or success with a root.
\* Two roots that deduplication could tell apart are enough here.
RefineRoots == {Root(0, 0), Root(MaxCoord, 0)}

FindRootOutcomes ==
    {[success |-> FALSE, root |-> Root(0, 0)]}
        \cup {[success |-> TRUE, root |-> r] : r \in RefineRoots}

NotTried == [success |-> FALSE, root |-> Root(1, 1)]

\* std::lock_guard<std::mutex> lock(results_mutex) can be taken.
MutexIgnored(m) == TRUE

MutexFree(m) == m = 0

RefineInit ==
    /\ SweepIdle
    /\ PoolIdle
    /\ BatchIdle
    /\ WrapIdle
    /\ RootIdle
    /\ DedupIdle
    /\ pc = "refine"
    /\ tol = 1
    /\ results = <<>>
    /\ cutoff \in 0..MaxCutoff
    /\ n_indices \in 0..MaxCands
    /\ todo = RefineRange(cutoff, n_indices)
    /\ tried = [i \in 1..Max(cutoff, n_indices) |-> 0]
    /\ root_res = [i \in 1..Max(cutoff, n_indices) |-> NotTried]
    /\ wstate = [w \in Workers |-> "free"]
    /\ windex = [w \in Workers |-> 0]
    /\ wend = [w \in Workers |-> 0]
    /\ results_mutex = 0

\* One turn of the loop body up to the test of root_res.success: worker w
\* takes an index of its range and runs find_root_period on it.  On failure
\* the reason is printed and the loop goes on.
RefineAttempt(w) ==
    /\ pc = "refine"
    /\ wstate[w] = "free"
    /\ \E i \in todo, res \in FindRootOutcomes :
          /\ todo' = todo \ {i}
          /\ tried' = [tried EXCEPT ![i] = @ + 1]
          /\ root_res' = [root_res EXCEPT ![i] = res]
          /\ windex' = [windex EXCEPT ![w] = i]
          /\ wstate' = [wstate EXCEPT ![w] = IF res.success THEN "has_root" ELSE "free"]
    /\ UNCHANGED <<pc, tol, results, cutoff, n_indices, wend, results_mutex, dedupVars, othersOfTail>>

\* lock_guard's constructor, then push_back reading where the list ends.
RefineLock(w) ==
    /\ pc = "refine"
    /\ wstate[w] = "has_root"
    /\ MutexFree(results_mutex)
    /\ results_mutex' = w
    /\ wend' = [wend EXCEPT ![w] = Len(results)]
    /\ wstate' = [wstate EXCEPT ![w] = "pushing"]
    /\ UNCHANGED <<pc, tol, results, cutoff, n_indices, todo, tried, root_res, windex, dedupVars, othersOfTail>>

\* push_back storing the root behind the end it read and setting the new
\* end, then lock_guard's destructor.
RefinePush(w) ==
    /\ pc = "refine"
    /\ wstate[w] = "pushing"
    /\ results' = Append(SubSeq(results, 1, wend[w]), root_res[windex[w]].root)
    /\ results_mutex' = 0
    /\ wstate' = [wstate EXCEPT ![w] = "free"]
    /\ UNCHANGED <<pc, tol, cutoff, n_indices, todo, tried, root_res, windex, wend, dedupVars, othersOfTail>>

\* parallel_for returns once the whole range is done.
RefineJoin ==
    /\ pc = "refine"
    /\ todo = {}
    /\ \A w \in Workers : wstate[w] = "free"
    /\ pc' = "dedup_scan"
    /\ UNCHANGED <<tol, results, refineVars, dedupVars, othersOfTail>>

RefineNext ==
    \/ \E w \in Workers : RefineAttempt(w) \/ RefineLock(w) \/ RefinePush(w)
    \/ RefineJoin

\* Every thread of the pool keeps running, so a step that can be taken is
\* taken.
SpecRefine == RefineInit /\ [][RefineNext]_vars /\ WF_vars(RefineNext)

Occurrences(res, r) == Cardinality({k \in 1..Len(res) : res[k] = r})

Successes(r) ==
    Cardinality({i \in DOMAIN root_res : root_res[i].success /\ root_res[i].root = r})

C10_AttemptsAndAppends ==
    /\ \A i \in DOMAIN tried :
          /\ tried[i] <= 1
          /\ i > Min(cutoff, n_indices) => tried[i] = 0
          /\ (pc # "refine" /\ i <= Min(cutoff, n_indices)) => tried[i] = 1
    /\ Len(results) <= Min(cutoff, n_indices)
    /\ \A r \in RefineRoots : Occurrences(results, r) <= Successes(r)
    /\ pc # "refine" => \A r \in RefineRoots : Occurrences(results, r) = Successes(r)

One == 16

Pi == TwoPi \div 2

\* sin(d * half<Real>()): exact where d is a whole number of half turns
\* (0, 1, 0, -1), in between the chord through those values.
SinHalf(d) ==
    IF isnan(d) THEN NaN
    ELSE LET h == d % (2 * TwoPi)
         IN  IF h <= Pi THEN RoundRat(One * h, Pi)
             ELSE IF h <= 3 * Pi THEN RoundRat(One * (TwoPi - h), Pi)
             ELSE RoundRat(One * (h - 2 * TwoPi), Pi)

\* The constructor find_root_period picks: the one without a period when
\* period is the largest int, the one with a period otherwise.
FixedPeriod(period) == period # IntMax

\* RootFunctor::operator() after calc_ray left ray in the context: NaN in
\* both components unless the ray is NORMAL, else theta_f - theta_o and the
\* fixed-period or the half-angle sine form of the azimuth residual.
RootFunctorSineOnly(ray, theta_o, phi_o, period, fixed) ==
    IF ray.ray_status # "NORMAL" THEN <<NaN, NaN>>
    ELSE <<FSub(ray.theta_f, theta_o), SinHalf(FSub(ray.phi_f, phi_o))>>

RootFunctor(ray, theta_o, phi_o, period, fixed) ==
    IF ray.ray_status # "NORMAL" THEN <<NaN, NaN>>
    ELSE <<FSub(ray.theta_f, theta_o),
           IF fixed
           THEN FSub(FSub(ray.phi_f, phi_o), FMul(period, TwoPi))
           ELSE SinHalf(FSub(ray.phi_f, phi_o))>>

\* residual.norm() squared, and its comparisons with tol.
NormSquared(r) == IF isnan(r[1]) \/ isnan(r[2]) THEN NaN ELSE r[1] * r[1] + r[2] * r[2]

NormGt(r, t) ==
    /\ ~isnan(NormSquared(r))
    /\ ~isnan(t)
    /\ (t < 0 \/ NormSquared(r) > t * t)

NormLe(r, t) ==
    /\ ~isnan(NormSquared(r))
    /\ ~isnan(t)
    /\ t >= 0
    /\ NormSquared(r) <= t * t

\* The FindRootResult find_root_period builds from the context, the
\* residual at the solver's final x and tol.  fail_reason and root are
\* lists: empty for the empty string and for no root.
FindRootResult(ray, residual, x, t) ==
    IF ray.ray_status # "NORMAL"
    THEN [success |-> FALSE, fail_reason |-> <<"ray status", ray.ray_status>>, root |-> <<>>]
    ELSE IF NormGt(residual, t)
    THEN [success |-> FALSE, fail_reason |-> <<"residual > threshold">>, root |-> <<>>]
    ELSE [success |-> TRUE, fail_reason |-> <<>>,
          root |-> <<[rc |-> x[1], log_abs_d |-> x[2],
                      theta_f |-> ray.theta_f, phi_f |-> ray.phi_f]>>]

\* The caller's arguments and what the Oracle can leave in the context.
RootPeriods == {-1, 0, 1, IntMax}

RootThetaO == {Pi \div 2, NaN}

RootPhiO == {-Pi, 0, Pi, 3 * Pi}

RootTol == {0, One \div 2, NaN}

RootX == {<<0, 0>>, <<1, 2>>}

RayOutcomes ==
    {[ray_status |-> st, theta_f |-> 0, phi_f |-> 0] : st \in {"CONFINED", "ARGUMENT_ERROR"}}
        \cup {[ray_status |-> "NORMAL", theta_f |-> th, phi_f |-> ph] :
                 th \in {Pi \div 2, Pi \div 2 + 4},
                 ph \in {0, Pi, TwoPi, 3 * Pi, 5 * Pi}}

RootInit ==
    /\ SweepIdle
    /\ PoolIdle
    /\ BatchIdle
    /\ WrapIdle
    /\ TailIdle
    /\ f_entry \in {"find_root", "find_root_period"}
    /\ f_pc = f_entry
    /\ f_period \in IF f_entry = "find_root" THEN {0} ELSE RootPeriods
    /\ f_theta_o \in RootThetaO
    /\ f_phi_o \in RootPhiO
    /\ f_tol \in RootTol
    /\ f_fixed = FALSE
    /\ f_x \in RootX
    /\ f_ray = <<>>
    /\ f_residual = <<>>
    /\ f_result = <<>>

\* find_root: wrap_phi(phi_o), then find_root_period with the largest int.
find_root ==
    /\ f_pc = "find_root"
    /\ f_phi_o' = wrap_phi(f_phi_o)
    /\ f_period' = IntMax
    /\ f_pc' = "find_root_period"
    /\ UNCHANGED <<f_entry, f_theta_o, f_tol, f_fixed, f_x, f_ray, f_residual, f_result,
                   othersOfRoot>>

\* find_root_period up to the solver: wrap_phi(phi_o), x from the params,
\* the functor from one of its two constructors.
find_root_period_setup ==
    /\ f_pc = "find_root_period"
    /\ f_phi_o' = wrap_phi(f_phi_o)
    /\ f_fixed' = FixedPeriod(f_period)
    /\ f_pc' = "solve"
    /\ UNCHANGED <<f_entry, f_period, f_theta_o, f_tol, f_x, f_ray, f_residual, f_result,
                   othersOfRoot>>

\* find_root_period from the solver on: broyden_df leaves some x, the
\* functor is run once more at that x, and the result is built.
find_root_period_solve ==
    /\ f_pc = "solve"
    /\ \E x \in RootX, ray \in RayOutcomes :
          /\ f_x' = x
          /\ f_ray' = ray
          /\ f_residual' = RootFunctor(ray, f_theta_o, f_phi_o, f_period, f_fixed)
          /\ f_result' = FindRootResult(ray, f_residual', x, f_tol)
    /\ f_pc' = "done"
    /\ UNCHANGED <<f_entry, f_period, f_theta_o, f_phi_o, f_tol, f_fixed, othersOfRoot>>

RootNext == find_root \/ find_root_period_setup \/ find_root_period_solve

SpecRoot == RootInit /\ [][RootNext]_vars

RayNormal == f_ray.ray_status = "NORMAL"

FixedForm == FSub(FSub(f_ray.phi_f, f_phi_o), FMul(f_period, TwoPi))

SineForm == SinHalf(FSub(f_ray.phi_f, f_phi_o))

\* C7 as claimed: for every period passed to find_root_period the second
\* residual component is phi_f - phi_o - period * two_pi; the sine form is
\* used by find_root only.
C7_FixedFormForEveryPeriod ==
    f_pc = "done" =>
        /\ f_entry = "find_root_period" =>
              (f_fixed /\ (RayNormal => f_residual[2] = FixedForm))
        /\ f_entry = "find_root" =>
              (~f_fixed /\ (RayNormal => f_residual[2] = SineForm))

\* C7 as amended: for every period passed to find_root_period other than
\* the largest int the second residual component is
\* phi_f - phi_o - period * two_pi; for the largest int, and through
\* find_root, it is the half-angle sine form.
C7_FixedFormUnlessIntMax ==
    f_pc = "done" =>
        /\ (f_entry = "find_root_period" /\ f_period # IntMax) =>
              (f_fixed /\ (RayNormal => f_residual[2] = FixedForm))
        /\ (f_entry = "find_root" \/ f_period = IntMax) =>
              (~f_fixed /\ (RayNormal => f_residual[2] = SineForm))

\* Reached: find_root_period with period 1 ended on a NORMAL ray where the
\* two forms differ, and the residual is the fixed-period one.
C7_Witness ==
    /\ f_pc = "done"
    /\ f_entry = "find_root_period"
    /\ f_period = 1
    /\ RayNormal
    /\ FixedForm # SineForm
    /\ f_residual[2] = FixedForm

\* C8: success exactly when the ray at the final point is NORMAL and the
\* residual norm is <= tol, then with the root at the solver's final point;
\* otherwise no success, a reason and no root, the reason being the ray
\* status whenever the ray is not NORMAL.
C8_DiscriminatedOutcome ==
    f_pc = "done" =>
        /\ f_result.success <=> (RayNormal /\ NormLe(f_residual, f_tol))
        /\ f_result.success =>
              /\ Len(f_result.root) = 1
              /\ f_result.root[1].rc = f_x[1]
              /\ f_result.root[1].log_abs_d = f_x[2]
        /\ ~f_result.success => (f_result.fail_reason # <<>> /\ f_result.root = <<>>)
        /\ ~RayNormal => f_result.fail_reason = <<"ray status", f_ray.ray_status>>

(***************************************************************************)
(* The pooled Oracle contexts                                              *)
(***************************************************************************)

\* The contexts the pool can hold: never more are held at once than there
\* are workers.
Contexts == 1..NumWorkers

\* The largest params value, the largest number of calc_ray calls on one
\* acquisition, and the number of acquisitions in a run.
MaxParam == 1

MaxUses == 2

MaxTasks == 3

ParamValues == 0..MaxParam

\* ForwardRayTracing::calc_ray followed by the fields it leaves: a
\* deterministic function of the params.
Oracle(p) ==
    [ray_status |-> IF p = 0 THEN "CONFINED" ELSE "NORMAL", theta_f |-> p, phi_f |-> 2 * p]

\* A context no calc_ray has run on, and a default-constructed result.
FreshContext == [ray_status |-> "NORMAL", theta_f |-> -1, phi_f |-> -1]

DefaultResult == [ray_status |-> "NORMAL", theta_f |-> -2, phi_f |-> -2]

\* The local shared_ptr ray_tracing (the member, in RootFunctor) keeps the
\* handle from get_from_cache to the end of the loop body, the task or the
\* functor: through every calc_ray and every read of its fields.
HoldsHandleNever(st) == FALSE

HoldsHandle(st) == st \in {"acquired", "computed"}

InUse == {u_ctx[w] : w \in {v \in Workers : HoldsHandle(u_state[v])}}

\* get_from_cache / pool.create: a context no handle points to.
PoolCreate == Contexts \ InUse

\* ray_tracing = get_from_cache() for one acquisition with n calc_ray calls:
\* calc_ray_batch's loop body (n = 1), a block of the sampling loop of
\* sweep_rc_d, or a RootFunctor through the solver's calls and the last one.
PoolAcquire(w) ==
    /\ tasks_left > 0
    /\ u_state[w] = "free"
    /\ \E c \in PoolCreate, n \in 1..MaxUses :
          /\ u_ctx' = [u_ctx EXCEPT ![w] = c]
          /\ u_left' = [u_left EXCEPT ![w] = n]
    /\ u_state' = [u_state EXCEPT ![w] = "acquired"]
    /\ tasks_left' = tasks_left - 1
    /\ UNCHANGED <<ctx_fields, u_param, u_index, batchVars, othersOfBatch>>

\* ray_tracing->calc_ray(params)
PoolCalcRay(w) ==
    /\ u_state[w] = "acquired"
    /\ u_left[w] > 0
    /\ \E p \in ParamValues :
          /\ u_param' = [u_param EXCEPT ![w] = p]
          /\ ctx_fields' = [ctx_fields EXCEPT ![u_ctx[w]] = Oracle(p)]
    /\ u_left' = [u_left EXCEPT ![w] = @ - 1]
    /\ u_state' = [u_state EXCEPT ![w] = "computed"]
    /\ UNCHANGED <<u_ctx, u_index, tasks_left, batchVars, othersOfBatch>>

\* The reads of ray_status, theta_f, phi_f (or to_result) after a calc_ray.
PoolRead(w) ==
    /\ u_state[w] = "computed"
    /\ u_state' = [u_state EXCEPT ![w] = "acquired"]
    /\ UNCHANGED <<ctx_fields, u_ctx, u_param, u_left, u_index, tasks_left, batchVars,
                   othersOfBatch>>

\* The shared_ptr goes out of scope.
PoolRelease(w) ==
    /\ u_state[w] = "acquired"
    /\ u_left[w] = 0
    /\ u_state' = [u_state EXCEPT ![w] = "free"]
    /\ UNCHANGED <<ctx_fields, u_ctx, u_param, u_left, u_index, tasks_left, batchVars,
                   othersOfBatch>>

WorkersInit ==
    /\ ctx_fields = [c \in Contexts |-> FreshContext]
    /\ u_state = [w \in Workers |-> "free"]
    /\ u_ctx = [w \in Workers |-> 1]
    /\ u_param = [w \in Workers |-> 0]
    /\ u_left = [w \in Workers |-> 0]
    /\ u_index = [w \in Workers |-> 0]

PoolInit ==
    /\ SweepIdle
    /\ WrapIdle
    /\ RootIdle
    /\ TailIdle
    /\ BatchIdle
    /\ WorkersInit
    /\ tasks_left = MaxTasks

PoolNext ==
    \E w \in Workers : PoolAcquire(w) \/ PoolCalcRay(w) \/ PoolRead(w) \/ PoolRelease(w)

SpecPool == PoolInit /\ [][PoolNext]_vars

Using(w) == u_state[w] \in {"acquired", "computed"}

MaxBatch == 2

\* results[i] = ...: the slot a result goes to.
ResultSlotNextUnset(i, res) == CHOOSE k \in 1..Len(res) : res[k] = DefaultResult /\ \A j \in 1..(k - 1) : res[j] # DefaultResult

ResultSlot(i, res) == i

BatchInit ==
    /\ SweepIdle
    /\ WrapIdle
    /\ RootIdle
    /\ TailIdle
    /\ WorkersInit
    /\ tasks_left = 0
    /\ b_pc = "run"
    /\ params_list \in ListsUpTo(ParamValues, MaxBatch)
    /\ batch_results = [i \in 1..Len(params_list) |-> DefaultResult]
    /\ b_todo = 1..Len(params_list)

\* The loop body's first line for some i of the worker's range:
\* ray_tracing = get_from_cache().
BatchAcquire(w) ==
    /\ b_pc = "run"
    /\ u_state[w] = "free"
    /\ \E i \in b_todo, c \in PoolCreate :
          /\ b_todo' = b_todo \ {i}
          /\ u_index' = [u_index EXCEPT ![w] = i]
          /\ u_ctx' = [u_ctx EXCEPT ![w] = c]
    /\ u_state' = [u_state EXCEPT ![w] = "acquired"]
    /\ UNCHANGED <<ctx_fields, u_param, u_left, tasks_left, b_pc, params_list, batch_results,
                   othersOfBatch>>

\* ray_tracing->calc_ray(params_list[i])
BatchCalcRay(w) ==
    /\ b_pc = "run"
    /\ u_state[w] = "acquired"
    /\ u_param' = [u_param EXCEPT ![w] = params_list[u_index[w]]]
    /\ ctx_fields' = [ctx_fields EXCEPT ![u_ctx[w]] = Oracle(params_list[u_index[w]])]
    /\ u_state' = [u_state EXCEPT ![w] = "computed"]
    /\ UNCHANGED <<u_ctx, u_left, u_index, tasks_left, batchVars, othersOfBatch>>

\* results[i] = ray_tracing->to_result(), and the end of the loop body.
BatchToResult(w) ==
    /\ b_pc = "run"
    /\ u_state[w] = "computed"
    /\ batch_results' =
          [batch_results EXCEPT ![ResultSlot(u_index[w], batch_results)] = ctx_fields[u_ctx[w]]]
    /\ u_state' = [u_state EXCEPT ![w] = "free"]
    /\ UNCHANGED <<ctx_fields, u_ctx, u_param, u_left, u_index, tasks_left, b_pc, params_list,
                   b_todo, othersOfBatch>>

\* parallel_for returns once the whole range is done; return results.
BatchReturn ==
    /\ b_pc = "run"
    /\ b_todo = {}
    /\ \A w \in Workers : u_state[w] = "free"
    /\ b_pc' = "returned"
    /\ UNCHANGED <<poolVars, params_list, batch_results, b_todo, othersOfBatch>>

BatchNext ==
    \/ \E w \in Workers : BatchAcquire(w) \/ BatchCalcRay(w) \/ BatchToResult(w)
    \/ BatchReturn

SpecBatch == BatchInit /\ [][BatchNext]_vars

\* C5: calc_ray_batch returns a list as long as its input whose element i
\* is the Oracle's result for input element i, whatever the split of the
\* range among the workers and their interleaving.
C5_BatchKeepsOrder ==
    b_pc = "returned" =>
        /\ Len(batch_results) = Len(params_list)
        /\ \A i \in 1..Len(params_list) : batch_results[i] = Oracle(params_list[i])

\* Reached: a batch of two different inputs has returned.
C5_Witness ==
    /\ b_pc = "returned"
    /\ Len(params_list) = MaxBatch
    /\ params_list[1] # params_list[2]

(***************************************************************************)
(* sweep_rc_d: sampling, root isolation, pairing, ranking                  *)
(***************************************************************************)

\* Rows are log_abs_d samples, columns rc samples, both counted from 0.
Cells(rows, cols) == {<<i, j>> : i \in 0..(rows - 1), j \in 0..(cols - 1)}

lgd_size == Len(lgd_list)

rc_size == Len(rc_list)

\* blocked_range2d(1u, lgd_size, 1u, rc_size): empty unless both sizes
\* exceed 1.
InteriorCells == {<<i, j>> : i \in 1..(lgd_size - 1), j \in 1..(rc_size - 1)}

\* The fields stored for one grid point from what calc_ray left: NaN in
\* every field unless the ray is NORMAL.
SampleInvalidAsZero(o, theta_o, phi_o) ==
    IF o.ray_status = "NORMAL"
    THEN [theta |-> o.theta_f, phi |-> o.phi_f,
          delta_theta |-> FSub(o.theta_f, theta_o),
          delta_phi |-> SinHalf(FSub(o.phi_f, phi_o)),
          lambda |-> o.lambda, eta |-> o.eta]
    ELSE [theta |-> 0, phi |-> 0, delta_theta |-> 0, delta_phi |-> 0, lambda |-> 0, eta |-> 0]

Sample(o, theta_o, phi_o) ==
    IF o.ray_status = "NORMAL"
    THEN [theta |-> o.theta_f, phi |-> o.phi_f,
          delta_theta |-> FSub(o.theta_f, theta_o),
          delta_phi |-> SinHalf(FSub(o.phi_f, phi_o)),
          lambda |-> o.lambda, eta |-> o.eta]
    ELSE [theta |-> NaN, phi |-> NaN, delta_theta |-> NaN, delta_phi |-> NaN,
          lambda |-> NaN, eta |-> NaN]

\* The test that puts cell (i, j) on theta_roots_index.
IsThetaCandidateNoNaNTest(dt, i, j) ==
    LET d_row == sgn(dt[<<i, j>>]) * sgn(dt[<<i, j - 1>>])
        d_col == sgn(dt[<<i, j>>]) * sgn(dt[<<i - 1, j>>])
    IN  d_row <= 0 \/ d_col <= 0

IsThetaCandidate(dt, i, j) ==
    LET d_row == sgn(dt[<<i, j>>]) * sgn(dt[<<i, j - 1>>])
        d_col == sgn(dt[<<i, j>>]) * sgn(dt[<<i - 1, j>>])
    IN  /\ ~isnan(dt[<<i, j>>])
        /\ ~isnan(dt[<<i, j - 1>>])
        /\ ~isnan(dt[<<i - 1, j>>])
        /\ (d_row <= 0 \/ d_col <= 0)

\* The test that puts cell (i, j) on phi_roots_index.
IsPhiCandidateNoLambdaTest(dp, lam, i, j) ==
    LET d_row == sgn(dp[<<i, j>>]) * sgn(dp[<<i, j - 1>>])
        d_col == sgn(dp[<<i, j>>]) * sgn(dp[<<i - 1, j>>])
    IN  /\ ~isnan(dp[<<i, j>>])
        /\ ~isnan(dp[<<i, j - 1>>])
        /\ ~isnan(dp[<<i - 1, j>>])
        /\ ~isnan(lam[<<i, j>>])
        /\ ~isnan(lam[<<i, j - 1>>])
        /\ ~isnan(lam[<<i - 1, j>>])
        /\ (d_row <= 0 \/ d_col <= 0)

IsPhiCandidate(dp, lam, i, j) ==
    LET d_row == sgn(dp[<<i, j>>]) * sgn(dp[<<i, j - 1>>])
        d_col == sgn(dp[<<i, j>>]) * sgn(dp[<<i - 1, j>>])
        d_row_lambda == sgn(lam[<<i, j>>]) * sgn(lam[<<i, j - 1>>])
        d_col_lambda == sgn(lam[<<i, j>>]) * sgn(lam[<<i - 1, j>>])
    IN  /\ ~isnan(dp[<<i, j>>])
        /\ ~isnan(dp[<<i, j - 1>>])
        /\ ~isnan(dp[<<i - 1, j>>])
        /\ ~isnan(lam[<<i, j>>])
        /\ ~isnan(lam[<<i, j - 1>>])
        /\ ~isnan(lam[<<i - 1, j>>])
        /\ d_row_lambda > 0
        /\ d_col_lambda > 0
        /\ (d_row <= 0 \/ d_col <= 0)

\* The orders in which concurrent emplace_back calls can leave a set.
Orders(S) ==
    {f \in [1..Cardinality(S) -> S] : \A a, b \in 1..Cardinality(S) : a # b => f[a] # f[b]}

\* The rows (rc, log_abs_d) of theta_roots, phi_roots, theta_roots_closest.
PointOf(cell) == <<rc_list[cell[2] + 1], lgd_list[cell[1] + 1]>>

PointsOf(cells) == [k \in 1..Len(cells) |-> PointOf(cells[k])]

\* bg::distance between two grid points, squared.
Distance2(p, q) == (p[1] - q[1]) * (p[1] - q[1]) + (p[2] - q[2]) * (p[2] - q[2])

\* bgi::nearest(p, 1) over the phi-candidates: those at the least distance.
Nearest(p, cands) ==
    {q \in cands : \A r \in cands : Distance2(p, q) <= Distance2(p, r)}

Range(f) == {f[k] : k \in DOMAIN f}

UnsortedOrders(dist) == Orders(1..Len(dist))

\* std::sort(indices, by distances): the orders it can leave.
SortedOrders(dist) ==
    {f \in Orders(1..Len(dist)) :
        \A a, b \in 1..Len(dist) : a < b => dist[f[a]] <= dist[f[b]]}

\* The parallel loop over all grid points, after wrap_phi(phi_o) and the
\* resizes.  Each point is written by one worker only.
SweepSample ==
    /\ s_pc = "sample"
    /\ s_phi_o' = wrap_phi(s_phi_o)
    /\ LET at == [c \in Cells(lgd_size, rc_size) |->
                     Sample(oracle_grid[c], s_theta_o, s_phi_o')]
       IN  sweep_result' =
               [sweep_result EXCEPT
                   !.theta = [c \in DOMAIN at |-> at[c].theta],
                   !.phi = [c \in DOMAIN at |-> at[c].phi],
                   !.delta_theta = [c \in DOMAIN at |-> at[c].delta_theta],
                   !.delta_phi = [c \in DOMAIN at |-> at[c].delta_phi],
                   !.lambda = [c \in DOMAIN at |-> at[c].lambda],
                   !.eta = [c \in DOMAIN at |-> at[c].eta]]
    /\ s_pc' = "isolate"
    /\ UNCHANGED <<rc_list, lgd_list, s_theta_o, oracle_grid, theta_roots_index,
                   phi_roots_index, theta_roots_closest_index, distances, indices, s_cutoff,
                   calls, othersOfSweep>>

\* The parallel loop over the interior cells: the candidates end up on the
\* two concurrent vectors in the order the workers' emplace_back calls land.
SweepIsolate ==
    /\ s_pc = "isolate"
    /\ LET th == {c \in InteriorCells :
                     IsThetaCandidate(sweep_result.delta_theta, c[1], c[2])}
           ph == {c \in InteriorCells :
                     IsPhiCandidate(sweep_result.delta_phi, sweep_result.lambda, c[1], c[2])}
       IN  /\ theta_roots_index' \in Orders(th)
           /\ phi_roots_index' \in Orders(ph)
    /\ s_pc' = "branch"
    /\ UNCHANGED <<rc_list, lgd_list, s_theta_o, s_phi_o, oracle_grid, sweep_result,
                   theta_roots_closest_index, distances, indices, s_cutoff, calls,
                   othersOfSweep>>

\* if (theta_roots_index.empty() && phi_roots_index.empty()) return
SweepReturnEmpty ==
    /\ s_pc = "branch"
    /\ theta_roots_index = <<>>
    /\ phi_roots_index = <<>>
    /\ s_pc' = "returned"
    /\ UNCHANGED <<rc_list, lgd_list, s_theta_o, s_phi_o, oracle_grid, sweep_result,
                   theta_roots_index, phi_roots_index, theta_roots_closest_index, distances,
                   indices, s_cutoff, calls, othersOfSweep>>

\* theta_roots is filled; if (phi_roots_index.empty()) return
SweepReturnNoPhi ==
    /\ s_pc = "branch"
    /\ theta_roots_index # <<>>
    /\ phi_roots_index = <<>>
    /\ sweep_result' = [sweep_result EXCEPT !.theta_roots = PointsOf(theta_roots_index)]
    /\ s_pc' = "returned"
    /\ UNCHANGED <<rc_list, lgd_list, s_theta_o, s_phi_o, oracle_grid, theta_roots_index,
                   phi_roots_index, theta_roots_closest_index, distances, indices, s_cutoff,
                   calls, othersOfSweep>>

\* theta_roots and phi_roots are filled, every theta-candidate gets a
\* nearest phi-candidate and its distance, the theta-candidates are sorted
\* by distance and theta_roots_closest is filled.  The cutoff passed to the
\* sweep is first read after this.
SweepPairRank ==
    /\ s_pc = "branch"
    /\ phi_roots_index # <<>>
    /\ \E closest \in [1..Len(theta_roots_index) -> Range(phi_roots_index)] :
          /\ \A k \in 1..Len(theta_roots_index) :
                closest[k] \in Nearest(theta_roots_index[k], Range(phi_roots_index))
          /\ theta_roots_closest_index' = closest
          /\ distances' = [k \in 1..Len(theta_roots_index) |->
                              Distance2(theta_roots_index[k], closest[k])]
    /\ indices' \in SortedOrders(distances')
    /\ sweep_result' =
          [sweep_result EXCEPT
              !.theta_roots = PointsOf(theta_roots_index),
              !.phi_roots = PointsOf(phi_roots_index),
              !.theta_roots_closest =
                  [k \in 1..Len(indices') |-> PointOf(theta_roots_closest_index'[indices'[k]])]]
    /\ s_cutoff' \in 0..MaxCutoff
    /\ s_pc' = "refine"
    /\ UNCHANGED <<rc_list, lgd_list, s_theta_o, s_phi_o, oracle_grid, theta_roots_index,
                   phi_roots_index, calls, othersOfSweep>>

PeriodZero(phi) == 0

\* MY_FLOOR<Real>::convert(phi(row, col) / two_pi)
PeriodOf(phi) == IF isnan(phi) THEN NaN ELSE FloorDiv(phi, TwoPi)

\* cutoff = std::min(cutoff, indices.size()) and the parallel loop over the
\* first cutoff ranked candidates, as far as the arguments of its
\* find_root_period calls go.
SweepRefineCalls ==
    /\ s_pc = "refine"
    /\ s_cutoff' = Min(s_cutoff, Len(indices))
    /\ calls' = [k \in 1..s_cutoff' |->
                    LET cell == theta_roots_closest_index[indices[k]]
                    IN  [rc |-> PointOf(cell)[1], log_abs_d |-> PointOf(cell)[2],
                         period |-> PeriodOf(sweep_result.phi[cell]),
                         theta_o |-> s_theta_o, phi_o |-> s_phi_o]]
    /\ s_pc' = "refining"
    /\ UNCHANGED <<rc_list, lgd_list, s_theta_o, s_phi_o, oracle_grid, sweep_result,
                   theta_roots_index, phi_roots_index, theta_roots_closest_index, distances,
                   indices, othersOfSweep>>

\* The largest number of points of a swept grid.
MaxPoints == 6

SweepThetaO == Pi \div 2

\* What calc_ray leaves at a grid point of a sweep: not NORMAL, or NORMAL
\* with theta_f on either side of theta_o, phi_f half a turn or a turn and
\* a half past the wrapped phi_o, and lambda positive.
SweepOutcome(st, th, ph, lam) ==
    [ray_status |-> st, theta_f |-> th, phi_f |-> ph, lambda |-> lam, eta |-> 1]

SweepOutcomes ==
    {SweepOutcome("CONFINED", 0, 0, 0),
     SweepOutcome("NORMAL", SweepThetaO + 4, TwoPi, 1),
     SweepOutcome("NORMAL", SweepThetaO - 4, TwoPi, 1),
     SweepOutcome("NORMAL", SweepThetaO + 4, 2 * TwoPi, 1)}

EmptySweepResult ==
    [theta |-> <<>>, phi |-> <<>>, lambda |-> <<>>, eta |-> <<>>, delta_theta |-> <<>>,
     delta_phi |-> <<>>, theta_roots |-> <<>>, phi_roots |-> <<>>,
     theta_roots_closest |-> <<>>]

SweepStart ==
    /\ WrapIdle
    /\ RootIdle
    /\ TailIdle
    /\ PoolIdle
    /\ BatchIdle
    /\ s_pc = "sample"
    /\ s_theta_o = SweepThetaO
    /\ s_phi_o = -Pi
    /\ sweep_result = EmptySweepResult
    /\ theta_roots_index = <<>>
    /\ phi_roots_index = <<>>
    /\ theta_roots_closest_index = <<>>
    /\ distances = <<>>
    /\ indices = <<>>
    /\ s_cutoff = 0
    /\ calls = <<>>

SweepInit ==
    /\ SweepStart
    /\ \E rows \in 0..MaxPoints, cols \in 0..MaxPoints :
          /\ rows * cols <= MaxPoints
          /\ lgd_list = [i \in 1..rows |-> i]
          /\ rc_list = [j \in 1..cols |-> 2 * j]
          /\ oracle_grid \in [Cells(rows, cols) -> SweepOutcomes]

SweepNext ==
    \/ SweepSample
    \/ SweepIsolate
    \/ SweepReturnEmpty
    \/ SweepReturnNoPhi
    \/ SweepPairRank
    \/ SweepRefineCalls

SpecSweep == SweepInit /\ [][SweepNext]_vars

AllInvalid == \A c \in DOMAIN oracle_grid : oracle_grid[c].ray_status # "NORMAL"

\* C4: when the Oracle reports a status other than NORMAL at every grid
\* point, the sweep returns before any pairing or refinement, with empty
\* candidate lists, an empty matched list and an empty result list, for
\* every grid size.
C4_EmptySweep ==
    AllInvalid =>
        /\ s_pc \in {"sample", "isolate", "branch", "returned"}
        /\ theta_roots_index = <<>>
        /\ phi_roots_index = <<>>
        /\ sweep_result.theta_roots = <<>>
        /\ sweep_result.phi_roots = <<>>
        /\ sweep_result.theta_roots_closest = <<>>
        /\ calls = <<>>
        /\ results = <<>>

\* Reached: a sweep of a grid with an interior cell, every point of which
\* is not NORMAL, has returned.
C4_Witness ==
    /\ s_pc = "returned"
    /\ AllInvalid
    /\ InteriorCells # {}

(***************************************************************************)
(* sweep_rc_d: root isolation on one interior cell and its two neighbours  *)
(***************************************************************************)

\* What calc_ray leaves at a grid point: not NORMAL, or NORMAL with
\* theta_f below, at or above theta_o or NaN, or NORMAL with phi_f and
\* lambda each below, at or above the value where the tested field is zero
\* or NaN.
IsolateOutcomes ==
    {SweepOutcome("CONFINED", 0, 0, 0)}
        \cup {SweepOutcome("NORMAL", th, TwoPi, 1) :
                 th \in {SweepThetaO - 4, SweepThetaO, SweepThetaO + 4, NaN}}
        \cup {SweepOutcome("NORMAL", SweepThetaO + 4, ph, lam) :
                 ph \in {Pi, TwoPi, 2 * TwoPi, NaN}, lam \in {-1, 0, 1, NaN}}

IsolateInit ==
    /\ SweepStart
    /\ lgd_list = <<1, 2>>
    /\ rc_list = <<2, 4>>
    /\ \E o \in [Cells(2, 2) \ {<<0, 0>>} -> IsolateOutcomes] :
          oracle_grid = [c \in Cells(2, 2) |->
                            IF c = <<0, 0>> THEN SweepOutcome("CONFINED", 0, 0, 0) ELSE o[c]]

IsolateNext == SweepSample \/ SweepIsolate

SpecIsolate == IsolateInit /\ [][IsolateNext]_vars

Needed(c) == {c, <<c[1], c[2] - 1>>, <<c[1] - 1, c[2]>>}

\* C3: a cell is on neither candidate list when the tested field is NaN at
\* the cell, at its left neighbour or at its upper neighbour; for the
\* phi-candidates the same holds for lambda.
C3_NoCandidateOnNaN ==
    /\ \A k \in 1..Len(theta_roots_index) :
          \A n \in Needed(theta_roots_index[k]) : ~isnan(sweep_result.delta_theta[n])
    /\ \A k \in 1..Len(phi_roots_index) :
          \A n \in Needed(phi_roots_index[k]) :
              ~isnan(sweep_result.delta_phi[n]) /\ ~isnan(sweep_result.lambda[n])

\* Reached: isolation has run on a cell whose delta_theta changes sign
\* against its upper neighbour and is NaN at its left neighbour, and the
\* cell is not a theta-candidate.
C3_Witness ==
    /\ s_pc = "branch"
    /\ isnan(sweep_result.delta_theta[<<1, 0>>])
    /\ sweep_result.delta_theta[<<1, 1>>] > 0
    /\ sweep_result.delta_theta[<<0, 1>>] < 0
    /\ theta_roots_index = <<>>

\* The sign changes of a field between a cell and its left and upper
\* neighbours, when the field is a number at all three.
SignChange(m, c) ==
    /\ \A n \in Needed(c) : ~isnan(m[n])
    /\ \/ sgn(m[c]) * sgn(m[<<c[1], c[2] - 1>>]) <= 0
       \/ sgn(m[c]) * sgn(m[<<c[1] - 1, c[2]>>]) <= 0

SameSign(m, c) ==
    /\ sgn(m[c]) * sgn(m[<<c[1], c[2] - 1>>]) > 0
    /\ sgn(m[c]) * sgn(m[<<c[1] - 1, c[2]>>]) > 0

\* C11: once isolation has run, an interior cell is a theta-candidate
\* exactly when delta_theta is a number at the cell and its left and upper
\* neighbours and changes sign against one of them, and a phi-candidate
\* exactly when the same holds of delta_phi and lambda has one strict sign
\* at the three cells; so no phi-candidate has a zero lambda or a lambda of
\* the other sign at a neighbour, and no cell of row 0 or column 0 is a
\* candidate.
C11_ExactIsolationTest ==
    s_pc = "branch" =>
        /\ \A c \in InteriorCells :
              /\ c \in Range(theta_roots_index) <=> SignChange(sweep_result.delta_theta, c)
              /\ c \in Range(phi_roots_index) <=>
                    (SignChange(sweep_result.delta_phi, c) /\ SameSign(sweep_result.lambda, c))
        /\ \A c \in Range(phi_roots_index) :
              /\ sweep_result.lambda[c] # 0
              /\ \A n \in Needed(c) :
                    (sweep_result.lambda[c] > 0) <=> (sweep_result.lambda[n] > 0)
        /\ \A c \in Range(theta_roots_index) \cup Range(phi_roots_index) :
              c[1] >= 1 /\ c[2] >= 1

\* Reached: isolation has run and the interior cell is a theta-candidate
\* and a phi-candidate.
C11_Witness ==
    /\ s_pc = "branch"
    /\ theta_roots_index = <<<<1, 1>>>>
    /\ phi_roots_index = <<<<1, 1>>>>

(***************************************************************************)
(* sweep_rc_d: what pairing, ranking and selection leave                   *)
(***************************************************************************)

\* The phi-candidate paired with the candidate at place k of the ranking,
\* and their distance.
RankedCell(k) == theta_roots_closest_index[indices[k]]

RankedDistance(k) == Distance2(theta_roots_index[indices[k]], RankedCell(k))

C12_PairedAndRanked ==
    s_pc \in {"refine", "refining"} =>
        /\ Len(theta_roots_closest_index) = Len(theta_roots_index)
        /\ \A k \in 1..Len(theta_roots_index) :
              /\ theta_roots_closest_index[k] \in Range(phi_roots_index)
              /\ \A q \in Range(phi_roots_index) :
                    Distance2(theta_roots_index[k], theta_roots_closest_index[k])
                        <= Distance2(theta_roots_index[k], q)
        /\ Len(sweep_result.theta_roots_closest) = Len(theta_roots_index)
        /\ Range(indices) = 1..Len(theta_roots_index)
        /\ \A k \in 1..Len(indices) :
              /\ sweep_result.theta_roots_closest[k] = PointOf(RankedCell(k))
              /\ \A m \in 1..Len(indices) : k < m => RankedDistance(k) <= RankedDistance(m)
        /\ s_pc = "refining" =>
              /\ Len(calls) <= Len(indices)
              /\ \A k \in 1..Len(calls) :
                    <<calls[k].rc, calls[k].log_abs_d>> = PointOf(RankedCell(k))

C12_FirstCutoff ==
    (s_pc = "refine" /\ s_pc' = "refining") =>
        Len(calls') = Min(s_cutoff, Len(theta_roots_index))

\* C12: when both candidate lists are non-empty, every theta-candidate is
\* paired with a phi-candidate at the least grid distance from it,
\* theta_roots_closest has a row for every theta-candidate in order of
\* non-decreasing paired distance, and refinement is called for the first
\* min(cutoff, number of theta-candidates) places of that order, so that no
\* refined candidate is paired farther than one left out.
C12_NearestPairingAndRanking == [](C12_PairedAndRanked) /\ [][C12_FirstCutoff]_vars

\* Reached: two theta-candidates at different paired distances, of which
\* refinement is called for one.
C12_Witness ==
    /\ s_pc = "refining"
    /\ Len(theta_roots_index) = 2
    /\ RankedDistance(1) < RankedDistance(2)
    /\ Len(calls) = 1

\* C13: refinement starts each selected candidate at the grid point of the
\* phi-candidate cell paired with it, whatever the theta-candidate's own
\* cell, with the period floor(phi / 2 pi) of the phi sample at that same
\* cell, which is a phi-candidate and whose phi sample is a number.
C13_StartAtMatchedPhiCell ==
    s_pc = "refining" =>
        \A k \in 1..Len(calls) :
            LET cell == theta_roots_closest_index[indices[k]]
            IN  /\ cell \in Range(phi_roots_index)
                /\ calls[k].rc = rc_list[cell[2] + 1]
                /\ calls[k].log_abs_d = lgd_list[cell[1] + 1]
                /\ ~isnan(sweep_result.phi[cell])
                /\ calls[k].period = FloorDiv(sweep_result.phi[cell], TwoPi)

\* Reached: refinement is called for a theta-candidate paired with a
\* phi-candidate at another cell, with a period other than 0.
C13_Witness ==
    /\ s_pc = "refining"
    /\ Len(calls) >= 1
    /\ theta_roots_index[indices[1]] # theta_roots_closest_index[indices[1]]
    /\ <<calls[1].rc, calls[1].log_abs_d>> # PointOf(theta_roots_index[indices[1]])
    /\ calls[1].period = 2

\* The theta-candidates refinement is called for when the candidates were
\* appended in the order th, paired as in closest and ranked as in perm.
SelectedOf(th, perm, n) == {th[perm[k]] : k \in 1..n}

\* The pairings and rankings the sweep can reach from the theta-candidates
\* appended in the order th.
Pairings(th) ==
    {closest \in [1..Len(th) -> Range(phi_roots_index)] :
        \A k \in 1..Len(th) : closest[k] \in Nearest(th[k], Range(phi_roots_index))}

Rankings(th, closest) ==
    SortedOrders([k \in 1..Len(th) |-> Distance2(th[k], closest[k])])

\* C14: the sampled grids and the two candidate sets are functions of the
\* inputs and the Oracle's answers, and the set of theta-candidates that
\* refinement is called for is the same for every order in which the
\* candidates can have been appended, ties in paired distance included.
C14_SelectionOrderIndependent ==
    /\ s_pc \in {"isolate", "branch", "refine", "refining", "returned"} =>
          \A c \in Cells(lgd_size, rc_size) :
              LET at == Sample(oracle_grid[c], s_theta_o, s_phi_o)
              IN  /\ sweep_result.theta[c] = at.theta
                  /\ sweep_result.phi[c] = at.phi
                  /\ sweep_result.delta_theta[c] = at.delta_theta
                  /\ sweep_result.delta_phi[c] = at.delta_phi
                  /\ sweep_result.lambda[c] = at.lambda
                  /\ sweep_result.eta[c] = at.eta
    /\ s_pc \in {"branch", "refine", "refining", "returned"} =>
          /\ Range(theta_roots_index) =
                {c \in InteriorCells : SignChange(sweep_result.delta_theta, c)}
          /\ Range(phi_roots_index) =
                {c \in InteriorCells :
                    SignChange(sweep_result.delta_phi, c) /\ SameSign(sweep_result.lambda, c)}
    /\ s_pc = "refining" =>
          \A th \in Orders(Range(theta_roots_index)) :
              \A closest \in Pairings(th) :
                  \A perm \in Rankings(th, closest) :
                      SelectedOf(th, perm, s_cutoff)
                          = SelectedOf(theta_roots_index, indices, s_cutoff)

(***************************************************************************)
(* sweep_rc_d: the indices of the removal loop                             *)
(***************************************************************************)

\* C15: in the removal loop every position erased is a position of the
\* list as it is then, and no position of the list before deduplication is
\* on duplicated_index twice.
C15_ErasedIndicesValid ==
    /\ pc # "crashed"
    /\ pc = "dedup_erase" =>
          /\ \A a, b \in 1..Len(duplicated_index) :
                a # b => duplicated_index[a] # duplicated_index[b]
          /\ erase_i > 0 => duplicated_index[erase_i] <= Len(results)

====
